---- MODULE Spec2Model ----
(***************************************************************************)
(* Hotel booking server (server/server.js) and the front-end that calls it *)
(* (App.jsx).  The database is two collections, rooms and bookings; every  *)
(* HTTP handler is modelled from its code.  JSON values of request bodies  *)
(* are tagged records; strings are sequences of one-character strings so   *)
(* that trim() and parseInt() are computed, not assumed.  Numbers are kept *)
(* in tenths (15 is 1.5) so that a fractional days value can be sent.      *)
(***************************************************************************)
EXTENDS Integers, Sequences, FiniteSets

VARIABLES
  rooms,     \* the rooms collection, in insertion order
  bookings,  \* the bookings collection, a set of documents
  nextId,    \* the next ObjectId / createdAt tick the store hands out
  req,       \* sequential server: the request in flight, or NoReq
  resp,      \* sequential server: the last response sent, or NoResp
  snap,      \* history: rooms and bookings just before the last 201 book
  procs      \* concurrent server: per in-flight handler, its position and locals

vars == <<rooms, bookings, nextId, req, resp, snap, procs>>

\* Bound: how many bookings the store ever creates in a run.
MaxBookings == 2

-----------------------------------------------------------------------------
(* JavaScript values *)

Undef == [t |-> "undefined", n |-> 0, s |-> <<>>]
NaN == [t |-> "nan", n |-> 0, s |-> <<>>]
NumV(tenths) == [t |-> "number", n |-> tenths, s |-> <<>>]
StrV(chars) == [t |-> "string", n |-> 0, s |-> chars]
IdV(k) == [t |-> "objectid", n |-> k, s |-> <<>>]

\* !v is FALSE
Truthy(v) ==
  CASE v.t = "undefined" -> FALSE
    [] v.t = "nan" -> FALSE
    [] v.t = "number" -> v.n # 0
    [] v.t = "string" -> v.s # <<>>
    [] OTHER -> TRUE

Digits == <<"0", "1", "2", "3", "4", "5", "6", "7", "8", "9">>

IsDigit(c) == \E i \in 1..10 : Digits[i] = c

DigitVal(c) == (CHOOSE i \in 1..10 : Digits[i] = c) - 1

IsSpace(c) == c = " "

RECURSIVE NatToChars(_)
NatToChars(k) ==
  IF k < 10 THEN <<Digits[k + 1]>>
  ELSE NatToChars(k \div 10) \o <<Digits[(k % 10) + 1]>>

Abs(k) == IF k < 0 THEN -k ELSE k

\* String(v) for the values parseInt and trim are applied to
JsString(v) ==
  CASE v.t = "string" -> v.s
    [] v.t = "number" ->
         (IF v.n < 0 THEN <<"-">> ELSE <<>>)
         \o NatToChars(Abs(v.n) \div 10)
         \o (IF Abs(v.n) % 10 = 0 THEN <<>> ELSE <<".", Digits[(Abs(v.n) % 10) + 1]>>)
    [] v.t = "nan" -> <<"N", "a", "N">>
    [] OTHER -> <<"u", "n", "d", "e", "f", "i", "n", "e", "d">>

RECURSIVE DropSpaces(_)
DropSpaces(s) ==
  IF s # <<>> /\ IsSpace(Head(s)) THEN DropSpaces(Tail(s)) ELSE s

RECURSIVE DropTrailingSpaces(_)
DropTrailingSpaces(s) ==
  IF s # <<>> /\ IsSpace(s[Len(s)])
  THEN DropTrailingSpaces(SubSeq(s, 1, Len(s) - 1))
  ELSE s

\* String.prototype.trim
Trim(s) == DropTrailingSpaces(DropSpaces(s))

\* the value of the longest prefix of decimal digits, acc so far
RECURSIVE DigitsPrefix(_, _)
DigitsPrefix(s, acc) ==
  IF s # <<>> /\ IsDigit(Head(s))
  THEN DigitsPrefix(Tail(s), 10 * acc + DigitVal(Head(s)))
  ELSE acc

\* parseInt(v): String(v), leading white space skipped, an optional sign,
\* then the longest run of digits; NaN when there is no digit
parseInt(v) ==
  LET s0 == DropSpaces(JsString(v))
      neg == s0 # <<>> /\ Head(s0) = "-"
      s1 == IF s0 # <<>> /\ Head(s0) \in {"-", "+"} THEN Tail(s0) ELSE s0
  IN IF s1 = <<>> \/ ~IsDigit(Head(s1)) THEN NaN
     ELSE NumV(10 * (IF neg THEN -DigitsPrefix(s1, 0) ELSE DigitsPrefix(s1, 0)))

\* a + b written for a * b
Plus(a, b) ==
  IF a.t = "number" /\ b.t = "number" THEN NumV(a.n + b.n) ELSE NaN

\* a * b
Times(a, b) ==
  IF a.t = "number" /\ b.t = "number" THEN NumV((a.n * b.n) \div 10) ELSE NaN

-----------------------------------------------------------------------------
(* The store *)

Chars101 == <<"1", "0", "1">>
Chars102 == <<"1", "0", "2">>
Chars103 == <<"1", "0", "3">>

\* Room.insertMany([...]) of initializeData, run on an empty collection
SeedRooms ==
  << [roomNumber |-> Chars101, roomType |-> "Single", price |-> NumV(10000), available |-> TRUE],
     [roomNumber |-> Chars102, roomType |-> "Double", price |-> NumV(15000), available |-> TRUE],
     [roomNumber |-> Chars103, roomType |-> "Deluxe", price |-> NumV(20000), available |-> TRUE] >>

NoDoc == [id |-> 0]

\* what the schema casts a String path's value to
CastString(v) == JsString(v)

\* Room.findOne({ roomNumber }): the position of the first match, 0 for null
FindOne(rs, roomNumber) ==
  LET hits == {i \in 1..Len(rs) : rs[i].roomNumber = CastString(roomNumber)}
  IN IF hits = {} THEN 0 ELSE CHOOSE i \in hits : \A j \in hits : i <= j

\* new Booking({...}) with the handler's totalAmount, trim() and parseInt()
NewBooking(body, room, id) ==
  [ id |-> id,
    guestName |-> Trim(body.guestName.s),
    guestPhone |-> Trim(body.guestPhone.s),
    roomNumber |-> CastString(body.roomNumber),
    days |-> parseInt(body.days),
    totalAmount |-> Times(room.price, parseInt(body.days)),
    createdAt |-> id ]

\* bookingSchema: every path required; a Number path rejects NaN, a
\* required String path rejects the empty string
ValidBooking(doc) ==
  /\ doc.guestName # <<>>
  /\ doc.guestPhone # <<>>
  /\ doc.roomNumber # <<>>
  /\ doc.days.t = "number"
  /\ doc.totalAmount.t = "number"

\* an update that matches every room
RoomSaveAll(rs, i) == [j \in 1..Len(rs) |-> [rs[j] EXCEPT !.available = FALSE]]

\* room.available = false; await room.save()
RoomSave(rs, i) == [rs EXCEPT ![i].available = FALSE]

\* Booking.findByIdAndDelete(id): the documents it removes (none for null)
FindById(bs, id) == {b \in bs : b.id = id.n}

\* the update left out
FindOneAndUpdateNothing(rs, roomNumber) == rs

\* Room.findOneAndUpdate({ roomNumber }, { available: true }), no upsert
FindOneAndUpdate(rs, roomNumber) ==
  LET i == FindOne(rs, roomNumber)
  IN IF i = 0 THEN rs ELSE [rs EXCEPT ![i].available = TRUE]

\* Booking.findByIdAndDelete's write
DeleteDocs(bs, hit) == bs \ hit

\* newBooking.save()'s write
InsertBooking(bs, doc) == bs \cup {doc}

Alphabet ==
  <<" ", "+", "-", ".", "0", "1", "2", "3", "4", "5", "6", "7", "8", "9", "A", "N", "a">>

CodeOf(c) == CHOOSE i \in 1..Len(Alphabet) : Alphabet[i] = c

\* string comparison a < b
RECURSIVE LexLess(_, _)
LexLess(a, b) ==
  IF b = <<>> THEN FALSE
  ELSE IF a = <<>> THEN TRUE
  ELSE IF Head(a) = Head(b) THEN LexLess(Tail(a), Tail(b))
  ELSE CodeOf(Head(a)) < CodeOf(Head(b))

\* Room.find().sort({ roomNumber: 1 })
RECURSIVE SortRooms(_, _)
SortRooms(rs, left) ==
  IF left = {} THEN <<>>
  ELSE LET m == CHOOSE i \in left : \A j \in left \ {i} :
                  \/ LexLess(rs[i].roomNumber, rs[j].roomNumber)
                  \/ (rs[i].roomNumber = rs[j].roomNumber /\ i < j)
       IN <<rs[m]>> \o SortRooms(rs, left \ {m})

\* Booking.find().sort({ createdAt: -1 })
RECURSIVE SortBookings(_)
SortBookings(bs) ==
  IF bs = {} THEN <<>>
  ELSE LET m == CHOOSE b \in bs : \A c \in bs : c.createdAt <= b.createdAt
       IN <<m>> \o SortBookings(bs \ {m})

-----------------------------------------------------------------------------
(* Requests and responses *)

Body(id, guestName, guestPhone, roomNumber, days) ==
  [id |-> id, guestName |-> guestName, guestPhone |-> guestPhone,
   roomNumber |-> roomNumber, days |-> days]

NoBody == Body(Undef, Undef, Undef, Undef, Undef)
NoReq == [op |-> "none", body |-> NoBody]
Resp(status, message, booking, data) ==
  [status |-> status, message |-> message, booking |-> booking, data |-> data]
NoResp == Resp(0, "", NoDoc, <<>>)
NoSnap == [id |-> 0, rooms |-> <<>>, bookings |-> {}, cancelled |-> FALSE]

Outcome(rs, bs, nid, r) == [rooms |-> rs, bookings |-> bs, nextId |-> nid, resp |-> r]

\* if (!guestName || !guestPhone || !roomNumber || !days)
FieldsMissing(body) ==
  \/ ~Truthy(body.guestName)
  \/ ~Truthy(body.guestPhone)
  \/ ~Truthy(body.roomNumber)
  \/ ~Truthy(body.days)

\* if (!room)
RoomMissing(i) == i = 0

\* the availability check left out
RoomUnavailableNever(room) == FALSE

\* if (!room.available)
RoomUnavailable(room) == ~room.available

\* the null check left out
BookingMissingNever(hit) == FALSE

\* if (!deletedBooking)
BookingMissing(hit) == hit = {}

\* if (!id || !roomNumber)
CancelFieldsMissing(body) == ~Truthy(body.id) \/ ~Truthy(body.roomNumber)

\* guestName.trim() and guestPhone.trim() throw on a value that is no string
TrimThrows(body) == body.guestName.t # "string" \/ body.guestPhone.t # "string"

Faults == {"none", "find", "bookingSave", "roomSave", "delete", "update"}

\* app.post("/api/book"), run to its response; fault names the store
\* operation that rejects, if any
BookHandler(rs, bs, nid, body, fault) ==
  IF FieldsMissing(body)
  THEN Outcome(rs, bs, nid, Resp(400, "All fields are required", NoDoc, <<>>))
  ELSE IF fault = "find"
  THEN Outcome(rs, bs, nid, Resp(500, "Error creating booking", NoDoc, <<>>))
  ELSE LET i == FindOne(rs, body.roomNumber) IN
    IF RoomMissing(i)
    THEN Outcome(rs, bs, nid, Resp(404, "Room not found", NoDoc, <<>>))
    ELSE IF RoomUnavailable(rs[i])
    THEN Outcome(rs, bs, nid, Resp(400, "Room is not available", NoDoc, <<>>))
    ELSE IF TrimThrows(body)
    THEN Outcome(rs, bs, nid, Resp(500, "Error creating booking", NoDoc, <<>>))
    ELSE LET doc == NewBooking(body, rs[i], nid) IN
      IF ~ValidBooking(doc) \/ fault = "bookingSave"
      THEN Outcome(rs, bs, nid, Resp(500, "Error creating booking", NoDoc, <<>>))
      ELSE IF fault = "roomSave"
      THEN Outcome(rs, InsertBooking(bs, doc), nid + 1,
                   Resp(500, "Error creating booking", NoDoc, <<>>))
      ELSE Outcome(RoomSave(rs, i), InsertBooking(bs, doc), nid + 1,
                   Resp(201, "Booking Successful!", doc, <<>>))

\* app.post("/api/cancel"), run to its response
CancelHandler(rs, bs, nid, body, fault) ==
  IF CancelFieldsMissing(body)
  THEN Outcome(rs, bs, nid,
               Resp(400, "Booking ID and room number are required", NoDoc, <<>>))
  ELSE IF fault = "delete"
  THEN Outcome(rs, bs, nid, Resp(500, "Error cancelling booking", NoDoc, <<>>))
  ELSE LET hit == FindById(bs, body.id) IN
    IF BookingMissing(hit)
    THEN Outcome(rs, bs, nid, Resp(404, "Booking not found", NoDoc, <<>>))
    ELSE IF fault = "update"
    THEN Outcome(rs, DeleteDocs(bs, hit), nid,
                 Resp(500, "Error cancelling booking", NoDoc, <<>>))
    ELSE Outcome(FindOneAndUpdate(rs, body.roomNumber), DeleteDocs(bs, hit), nid,
                 Resp(200, "Booking Cancelled Successfully!", NoDoc, <<>>))

\* app.get("/api/rooms")
RoomsHandler(rs, fault) ==
  IF fault = "find" THEN Resp(500, "Error fetching rooms", NoDoc, <<>>)
  ELSE Resp(200, "", NoDoc, SortRooms(rs, 1..Len(rs)))

\* app.get("/api/bookings")
BookingsHandler(bs, fault) ==
  IF fault = "find" THEN Resp(500, "Error fetching bookings", NoDoc, <<>>)
  ELSE Resp(200, "", NoDoc, SortBookings(bs))

-----------------------------------------------------------------------------
(* Request bodies a client may send *)

GuestNames == {Undef, StrV(<<>>), StrV(<<" ">>), StrV(<<" ", "A">>)}
GuestPhones == {Undef, StrV(<<" ">>), StrV(<<"5">>)}
RoomNumbers ==
  {Undef, StrV(Chars101), StrV(Chars102), StrV(Chars103), StrV(<<"9", "9", "9">>)}
DaysValues ==
  {Undef, NumV(-10), NumV(0), NumV(10), NumV(15), NumV(20),
   StrV(<<"0">>), StrV(<<"2">>), StrV(<<"a">>)}

GoodName == StrV(<<" ", "A">>)
GoodPhone == StrV(<<"5">>)

\* every room and days value with a usable name and phone, and every name and
\* phone with one day in room 101 or in a room that does not exist
BookBodies ==
  {Body(Undef, GoodName, GoodPhone, r, d) : r \in RoomNumbers, d \in DaysValues}
  \cup {Body(Undef, n, p, r, NumV(10)) :
          n \in GuestNames, p \in GuestPhones,
          r \in {StrV(Chars101), StrV(<<"9", "9", "9">>)}}

CancelBodies ==
  {Body(i, Undef, Undef, r, Undef) :
     i \in {Undef} \cup {IdV(k) : k \in 1..(MaxBookings + 1)}, r \in RoomNumbers}

-----------------------------------------------------------------------------
(* The server handling one request at a time *)

Idle == req = NoReq

SendBook(body) ==
  /\ Idle
  /\ nextId <= MaxBookings
  /\ req' = [op |-> "book", body |-> body]
  /\ UNCHANGED <<rooms, bookings, nextId, resp, snap, procs>>

SendCancel(body) ==
  /\ Idle
  /\ req' = [op |-> "cancel", body |-> body]
  /\ UNCHANGED <<rooms, bookings, nextId, resp, snap, procs>>

\* the front-end's Cancel button: cancelBooking(booking._id, booking.roomNumber)
SendCancelFE ==
  /\ Idle
  /\ \E b \in bookings :
       req' = [op |-> "cancel",
               body |-> Body(IdV(b.id), Undef, Undef, StrV(b.roomNumber), Undef)]
  /\ UNCHANGED <<rooms, bookings, nextId, resp, snap, procs>>

SendGet(op) ==
  /\ Idle
  /\ req' = [op |-> op, body |-> NoBody]
  /\ UNCHANGED <<rooms, bookings, nextId, resp, snap, procs>>

Book(fault) ==
  /\ req.op = "book"
  /\ LET out == BookHandler(rooms, bookings, nextId, req.body, fault) IN
       /\ rooms' = out.rooms
       /\ bookings' = out.bookings
       /\ nextId' = out.nextId
       /\ resp' = out.resp
       /\ snap' = IF out.resp.status = 201
                  THEN [id |-> out.resp.booking.id, rooms |-> rooms,
                        bookings |-> bookings, cancelled |-> FALSE]
                  ELSE NoSnap
  /\ req' = NoReq
  /\ UNCHANGED procs

Cancel(fault) ==
  /\ req.op = "cancel"
  /\ LET out == CancelHandler(rooms, bookings, nextId, req.body, fault) IN
       /\ rooms' = out.rooms
       /\ bookings' = out.bookings
       /\ resp' = out.resp
  /\ req' = NoReq
  /\ snap' = IF snap.id # 0 /\ req.body.id = IdV(snap.id)
             THEN [snap EXCEPT !.cancelled = TRUE]
             ELSE NoSnap
  /\ UNCHANGED <<nextId, procs>>

GetRooms(fault) ==
  /\ req.op = "rooms"
  /\ resp' = RoomsHandler(rooms, fault)
  /\ req' = NoReq
  /\ snap' = NoSnap
  /\ UNCHANGED <<rooms, bookings, nextId, procs>>

GetBookings(fault) ==
  /\ req.op = "bookings"
  /\ resp' = BookingsHandler(bookings, fault)
  /\ req' = NoReq
  /\ snap' = NoSnap
  /\ UNCHANGED <<rooms, bookings, nextId, procs>>

\* app.get("/health")
Health ==
  /\ req.op = "health"
  /\ resp' = Resp(200, "Server is running", NoDoc, <<>>)
  /\ req' = NoReq
  /\ snap' = NoSnap
  /\ UNCHANGED <<rooms, bookings, nextId, procs>>

\* app.get("/")
Root ==
  /\ req.op = "root"
  /\ resp' = Resp(200, "Hotel Booking API Server", NoDoc, <<>>)
  /\ req' = NoReq
  /\ snap' = NoSnap
  /\ UNCHANGED <<rooms, bookings, nextId, procs>>

-----------------------------------------------------------------------------
(* The server with handlers interleaved at their awaits.  Each store call *)
(* is one step; the code between two awaits runs with the call before it. *)

Procs == {"p1", "p2"}

NoRoom == [roomNumber |-> <<>>, roomType |-> "", price |-> NaN, available |-> FALSE]

IdleProc ==
  [pc |-> "idle", req |-> NoReq, idx |-> 0, room |-> NoRoom, doc |-> NoDoc,
   hit |-> {}, resp |-> NoResp]

ConcBookBodies ==
  {b \in BookBodies :
     /\ b.guestName = GoodName /\ b.guestPhone = GoodPhone
     /\ b.roomNumber \in {StrV(Chars101), StrV(Chars102), StrV(<<"9", "9", "9">>)}
     /\ b.days \in {NumV(10), NumV(20), Undef}}

ConcCancelBodies ==
  {b \in CancelBodies :
     /\ b.id \in {IdV(k) : k \in 1..MaxBookings}
     /\ b.roomNumber \in {StrV(Chars101), StrV(Chars102), Undef}}

\* book requests accepted whose booking is not yet inserted
PendingInserts ==
  Cardinality({p \in Procs : procs[p].req.op = "book"
                             /\ procs[p].pc \in {"received", "found"}})

Done(p, r) == procs' = [procs EXCEPT ![p].pc = "done", ![p].resp = r]

CSendBook(p, body) ==
  /\ procs[p].pc = "idle"
  /\ nextId + PendingInserts <= MaxBookings
  /\ procs' = [procs EXCEPT ![p].pc = "received",
                            ![p].req = [op |-> "book", body |-> body]]
  /\ UNCHANGED <<rooms, bookings, nextId, req, resp, snap>>

CSendCancel(p, body) ==
  /\ procs[p].pc = "idle"
  /\ procs' = [procs EXCEPT ![p].pc = "received",
                            ![p].req = [op |-> "cancel", body |-> body]]
  /\ UNCHANGED <<rooms, bookings, nextId, req, resp, snap>>

\* lines 81-87: the field check, then await Room.findOne
BookFind(p) ==
  /\ procs[p].pc = "received"
  /\ procs[p].req.op = "book"
  /\ IF FieldsMissing(procs[p].req.body)
     THEN Done(p, Resp(400, "All fields are required", NoDoc, <<>>))
     ELSE LET i == FindOne(rooms, procs[p].req.body.roomNumber) IN
            procs' = [procs EXCEPT ![p].pc = "found", ![p].idx = i,
                        ![p].room = IF i = 0 THEN NoRoom ELSE rooms[i]]
  /\ UNCHANGED <<rooms, bookings, nextId, req, resp, snap>>

\* BookInsert with the room's flag read again from the store at this step
BookInsertRecheck(p) ==
  /\ procs[p].pc = "found"
  /\ LET me == procs[p]
         doc == NewBooking(me.req.body, me.room, nextId)
     IN IF RoomMissing(me.idx)
        THEN /\ Done(p, Resp(404, "Room not found", NoDoc, <<>>))
             /\ UNCHANGED <<bookings, nextId>>
        ELSE IF RoomUnavailable(rooms[me.idx])
        THEN /\ Done(p, Resp(400, "Room is not available", NoDoc, <<>>))
             /\ UNCHANGED <<bookings, nextId>>
        ELSE IF TrimThrows(me.req.body) \/ ~ValidBooking(doc)
        THEN /\ Done(p, Resp(500, "Error creating booking", NoDoc, <<>>))
             /\ UNCHANGED <<bookings, nextId>>
        ELSE /\ bookings' = InsertBooking(bookings, doc)
             /\ nextId' = nextId + 1
             /\ procs' = [procs EXCEPT ![p].pc = "inserted", ![p].doc = doc]
  /\ UNCHANGED <<rooms, req, resp, snap>>

\* lines 88-106: the checks on the room that was read, then await newBooking.save
BookInsert(p) ==
  /\ procs[p].pc = "found"
  /\ LET me == procs[p]
         doc == NewBooking(me.req.body, me.room, nextId)
     IN IF RoomMissing(me.idx)
        THEN /\ Done(p, Resp(404, "Room not found", NoDoc, <<>>))
             /\ UNCHANGED <<bookings, nextId>>
        ELSE IF RoomUnavailable(me.room)
        THEN /\ Done(p, Resp(400, "Room is not available", NoDoc, <<>>))
             /\ UNCHANGED <<bookings, nextId>>
        ELSE IF TrimThrows(me.req.body) \/ ~ValidBooking(doc)
        THEN /\ Done(p, Resp(500, "Error creating booking", NoDoc, <<>>))
             /\ UNCHANGED <<bookings, nextId>>
        ELSE /\ bookings' = InsertBooking(bookings, doc)
             /\ nextId' = nextId + 1
             /\ procs' = [procs EXCEPT ![p].pc = "inserted", ![p].doc = doc]
  /\ UNCHANGED <<rooms, req, resp, snap>>

\* lines 107-113: room.available = false; await room.save(); the 201
BookRoomSave(p) ==
  /\ procs[p].pc = "inserted"
  /\ rooms' = RoomSave(rooms, procs[p].idx)
  /\ Done(p, Resp(201, "Booking Successful!", procs[p].doc, <<>>))
  /\ UNCHANGED <<bookings, nextId, req, resp, snap>>

\* lines 123-129: the field check, then await Booking.findByIdAndDelete
CancelDelete(p) ==
  /\ procs[p].pc = "received"
  /\ procs[p].req.op = "cancel"
  /\ IF CancelFieldsMissing(procs[p].req.body)
     THEN /\ Done(p, Resp(400, "Booking ID and room number are required", NoDoc, <<>>))
          /\ UNCHANGED bookings
     ELSE LET hit == FindById(bookings, procs[p].req.body.id) IN
            /\ bookings' = DeleteDocs(bookings, hit)
            /\ procs' = [procs EXCEPT ![p].pc = "deleted", ![p].hit = hit]
  /\ UNCHANGED <<rooms, nextId, req, resp, snap>>

\* lines 130-139: the null check, then await Room.findOneAndUpdate; the 200
CancelUpdate(p) ==
  /\ procs[p].pc = "deleted"
  /\ IF BookingMissing(procs[p].hit)
     THEN /\ Done(p, Resp(404, "Booking not found", NoDoc, <<>>))
          /\ UNCHANGED rooms
     ELSE /\ rooms' = FindOneAndUpdate(rooms, procs[p].req.body.roomNumber)
          /\ Done(p, Resp(200, "Booking Cancelled Successfully!", NoDoc, <<>>))
  /\ UNCHANGED <<bookings, nextId, req, resp, snap>>

\* the client has its response; the connection is free again
Receive(p) ==
  /\ procs[p].pc = "done"
  /\ procs' = [procs EXCEPT ![p] = IdleProc]
  /\ UNCHANGED <<rooms, bookings, nextId, req, resp, snap>>

-----------------------------------------------------------------------------
(* Specifications *)

Init ==
  /\ rooms = SeedRooms
  /\ bookings = {}
  /\ nextId = 1
  /\ req = NoReq
  /\ resp = NoResp
  /\ snap = NoSnap
  /\ procs = [p \in Procs |-> IdleProc]

\* any client, one request at a time, the store never failing
Next ==
  \/ \E body \in BookBodies : SendBook(body)
  \/ \E body \in CancelBodies : SendCancel(body)
  \/ \E op \in {"rooms", "bookings", "health", "root"} : SendGet(op)
  \/ Book("none")
  \/ Cancel("none")
  \/ GetRooms("none")
  \/ GetBookings("none")
  \/ Health
  \/ Root

Spec == Init /\ [][Next]_vars

\* the front-end as the only client of cancel
NextFE ==
  \/ \E body \in BookBodies : SendBook(body)
  \/ SendCancelFE
  \/ \E op \in {"rooms", "bookings", "health", "root"} : SendGet(op)
  \/ Book("none")
  \/ Cancel("none")
  \/ GetRooms("none")
  \/ GetBookings("none")
  \/ Health
  \/ Root

SpecFE == Init /\ [][NextFE]_vars

\* one request at a time, any store call may reject
NextFail ==
  \/ \E body \in BookBodies : SendBook(body)
  \/ \E body \in CancelBodies : SendCancel(body)
  \/ \E op \in {"rooms", "bookings", "health", "root"} : SendGet(op)
  \/ \E fault \in Faults : Book(fault)
  \/ \E fault \in Faults : Cancel(fault)
  \/ \E fault \in Faults : GetRooms(fault)
  \/ \E fault \in Faults : GetBookings(fault)
  \/ Health
  \/ Root

SpecFail == Init /\ [][NextFail]_vars

\* handlers of several requests interleaved
NextConc ==
  \E p \in Procs :
    \/ \E body \in ConcBookBodies : CSendBook(p, body)
    \/ \E body \in ConcCancelBodies : CSendCancel(p, body)
    \/ BookFind(p)
    \/ BookInsert(p)
    \/ BookRoomSave(p)
    \/ CancelDelete(p)
    \/ CancelUpdate(p)
    \/ Receive(p)

SpecConc == Init /\ [][NextConc]_vars
-----------------------------------------------------------------------------
(* Vocabulary of the properties *)

BookStep == req.op = "book" /\ req'.op = "none"
CancelStep == req.op = "cancel" /\ req'.op = "none"
GetStep == req.op \in {"rooms", "bookings", "health", "root"} /\ req'.op = "none"

StoreUnchanged == rooms' = rooms /\ bookings' = bookings

\* the rooms a room number names, and the bookings that reference it
RoomsNamed(rs, chars) == {i \in 1..Len(rs) : rs[i].roomNumber = chars}
BookingsFor(bs, chars) == {b \in bs : b.roomNumber = chars}

AllDigits(s) == s # <<>> /\ \A i \in 1..Len(s) : IsDigit(s[i])

\* the number a JSON value stands for (NaN when it stands for none)
Numeric(v) ==
  CASE v.t = "number" -> v
    [] v.t = "string" ->
         LET t == Trim(v.s)
             neg == t # <<>> /\ Head(t) = "-"
             d == IF neg THEN Tail(t) ELSE t
         IN IF t = <<>> THEN NumV(0)
            ELSE IF AllDigits(d)
            THEN NumV(10 * (IF neg THEN -DigitsPrefix(d, 0) ELSE DigitsPrefix(d, 0)))
            ELSE NaN
    [] OTHER -> NaN

\* a field that is there: not undefined, not the empty string, not 0
Given(v) == v # Undef /\ v # StrV(<<>>) /\ v # NumV(0)

AllGiven(body) ==
  Given(body.guestName) /\ Given(body.guestPhone) /\ Given(body.roomNumber) /\ Given(body.days)

AtLeastOne(v) == Numeric(v).t = "number" /\ Numeric(v).n >= 10
WholeNumber(v) == Numeric(v).t = "number" /\ Numeric(v).n % 10 = 0
NonBlank(v) == v.t = "string" /\ \E i \in 1..Len(v.s) : v.s[i] # " "

\* the book request in flight names exactly one room, and it is available
NamesAvailableRoom ==
  /\ req.body.roomNumber.t = "string"
  /\ \E i \in 1..Len(rooms) :
       RoomsNamed(rooms, req.body.roomNumber.s) = {i} /\ rooms[i].available

\* the 201 of a booking of req.body.days days in the room the request names
BookedAsAsked ==
  LET i == CHOOSE j \in 1..Len(rooms) : rooms[j].roomNumber = req.body.roomNumber.s
      new == bookings' \ bookings
  IN /\ resp'.status = 201
     /\ bookings \subseteq bookings'
     /\ Cardinality(new) = 1
     /\ \A b \in new :
          /\ b.roomNumber = rooms[i].roomNumber
          /\ b.days = Numeric(req.body.days)
          /\ b.totalAmount.t = "number"
          /\ b.totalAmount.n * 10 = rooms[i].price.n * Numeric(req.body.days).n
          /\ resp'.booking = b
     /\ ~rooms'[i].available
     /\ \A j \in 1..Len(rooms) : j # i => rooms'[j] = rooms[j]

-----------------------------------------------------------------------------
(* Properties *)

\* C1: in every state, a room is unavailable if and only if exactly one
\* stored booking references its room number (cancel bodies of any shape).
C1_AvailableIffOneBooking ==
  \A i \in 1..Len(rooms) :
    (~rooms[i].available) <=>
      (Cardinality(BookingsFor(bookings, rooms[i].roomNumber)) = 1)

\* C2 as stated: a book request with all four fields given and days >= 1
\* that names an available room answers 201, stores exactly one new booking
\* of that room with days as given and totalAmount = price * days, returns
\* it, and marks the room unavailable.
C2_BookSucceedsAsStated ==
  [][(BookStep /\ AllGiven(req.body) /\ AtLeastOne(req.body.days) /\ NamesAvailableRoom)
       => BookedAsAsked]_vars

\* C2 amended: the same, for a request whose guestName and guestPhone hold a
\* character that is not white space and whose days is a whole number >= 1.
C2_BookSucceeds ==
  [][(/\ BookStep
      /\ NonBlank(req.body.guestName) /\ NonBlank(req.body.guestPhone)
      /\ WholeNumber(req.body.days) /\ AtLeastOne(req.body.days)
      /\ NamesAvailableRoom)
       => BookedAsAsked]_vars

\* a 201 for two days that left its room unavailable
C2_Witness ==
  /\ resp.status = 201
  /\ resp.booking.days = NumV(20)
  /\ resp.booking \in bookings
  /\ \E i \in 1..Len(rooms) :
       /\ rooms[i].roomNumber = resp.booking.roomNumber
       /\ ~rooms[i].available
       /\ resp.booking.totalAmount.n = 2 * rooms[i].price.n

\* C3: a book request (its four fields given) that names no room answers
\* 404, one that names an unavailable room answers 400, and either leaves
\* the bookings and every room record as they were.
C3_BookFailsWithoutEffect ==
  [][(BookStep /\ AllGiven(req.body) /\ req.body.roomNumber.t = "string")
       => LET named == RoomsNamed(rooms, req.body.roomNumber.s) IN
            /\ named = {} => (resp'.status = 404 /\ StoreUnchanged)
            /\ (named # {} /\ \A i \in named : ~rooms[i].available)
                 => (resp'.status = 400 /\ StoreUnchanged)]_vars

\* a booked room has been refused to a second guest
C3_Witness ==
  /\ resp.status = 400
  /\ resp.message = "Room is not available"
  /\ \E i \in 1..Len(rooms) :
       ~rooms[i].available /\ BookingsFor(bookings, rooms[i].roomNumber) # {}

\* C4: a cancel whose id identifies a stored booking removes that booking and
\* makes the room the booking references available, whatever roomNumber the
\* request carries.
C4_CancelFreesBookedRoom ==
  [][(CancelStep /\ Given(req.body.roomNumber)) =>
       \A b \in bookings :
         (req.body.id = IdV(b.id)) =>
           /\ b \notin bookings'
           /\ \A i \in RoomsNamed(rooms, b.roomNumber) : rooms'[i].available]_vars

C6_BookValidatesFields ==
  [][BookStep =>
       /\ (\/ ~AllGiven(req.body)
           \/ (Numeric(req.body.days).t = "number" /\ Numeric(req.body.days).n <= 0))
            => (resp'.status = 400 /\ StoreUnchanged)
       /\ \A b \in bookings' : b.days.n >= 10]_vars

\* C7: no request adds, removes or renames a room or changes its type or
\* price; book only turns the named room's flag from true to false, cancel
\* only turns flags to true, and the GET handlers change nothing.
C7_RoomFrame ==
  [][/\ Len(rooms') = Len(rooms)
     /\ \A i \in 1..Len(rooms) :
          /\ rooms'[i].roomNumber = rooms[i].roomNumber
          /\ rooms'[i].roomType = rooms[i].roomType
          /\ rooms'[i].price = rooms[i].price
          /\ rooms'[i].available # rooms[i].available =>
               \/ /\ BookStep
                  /\ rooms[i].available
                  /\ rooms[i].roomNumber = req.body.roomNumber.s
               \/ /\ CancelStep
                  /\ rooms'[i].available
     /\ GetStep => StoreUnchanged
     /\ ~(BookStep \/ CancelStep) => StoreUnchanged]_vars

\* a cancel has freed a room while another room stays booked
C7_Witness ==
  /\ resp.message = "Booking Cancelled Successfully!"
  /\ \E i, j \in 1..Len(rooms) : rooms[i].available /\ ~rooms[j].available
  /\ bookings # {}

\* C8: a book handler that read its room as available answers 201 whatever
\* the other handlers did in between, and two such handlers for one room
\* return two different bookings of that room.
C8_BookNotIsolated ==
  /\ \A p \in Procs :
       (/\ procs[p].pc = "done" /\ procs[p].req.op = "book"
        /\ procs[p].idx # 0 /\ procs[p].room.available)
         => procs[p].resp.status = 201
  /\ \A p, q \in Procs :
       (/\ p # q
        /\ procs[p].pc = "done" /\ procs[p].resp.status = 201
        /\ procs[q].pc = "done" /\ procs[q].resp.status = 201
        /\ procs[p].idx = procs[q].idx)
         => /\ procs[p].resp.booking.id # procs[q].resp.booking.id
            /\ procs[p].resp.booking.roomNumber = procs[q].resp.booking.roomNumber

\* both handlers answered 201 and two stored bookings reference the one room
C8_Witness ==
  \E p, q \in Procs :
    /\ p # q
    /\ procs[p].pc = "done" /\ procs[p].resp.status = 201
    /\ procs[q].pc = "done" /\ procs[q].resp.status = 201
    /\ procs[p].idx = procs[q].idx
    /\ Cardinality(BookingsFor(bookings, rooms[procs[p].idx].roomNumber)) = 2

\* C9: a book or cancel that answers with an error status leaves the
\* bookings and the room records as they were before the request.
C9_ErrorsLeaveStoreUnchanged ==
  [][((BookStep \/ CancelStep) /\ resp'.status >= 400) => StoreUnchanged]_vars

\* C10: a 201 book followed at once by the cancel of the returned booking,
\* sent with the booking's own room number, answers 200 and leaves every
\* room record and the stored bookings as they were before the book.
C10_BookCancelRoundTrip ==
  snap.cancelled =>
    /\ resp.status = 200
    /\ rooms = snap.rooms
    /\ bookings = snap.bookings

\* the round trip has run from a state that already held a booking
C10_Witness == snap.cancelled /\ snap.bookings # {}
====
